---- MODULE Spec2Model ----
(***************************************************************************)
(* A model of colab_evaluation.py: the batch reader (batch_inferences,     *)
(* batched_inferences_from_files), the sparsifier                          *)
(* (_make_tidy_df_from_seq_names_and_prediction_array), the ground-truth   *)
(* tidifier, the aligner (merge_predictions_and_ground_truth), the curve   *)
(* builder (get_pr_curve_df, filter_pr_curve) and the confusion assigner   *)
(* (assign_tp_fp_fn).                                                      *)
(*                                                                         *)
(* Three specifications share the variables:                               *)
(*   SpecBatch   the generators of the batch reader, one step per record   *)
(*   Spec        sparsifier -> tidifier -> aligner -> curve / confusion    *)
(*   SpecFilter  filter_pr_curve applied once and then again               *)
(*                                                                         *)
(* Confidences, thresholds, precisions and recalls are fixed-point         *)
(* integers; NaN is a sentinel that every comparison answers False for.    *)
(***************************************************************************)
EXTENDS Integers, Sequences, FiniteSets

VARIABLES
    \* ---- batch reader ----
    shards,          \* the shard files in shard_names order, each its records
    batch_size,      \* batch_size argument
    file_idx,        \* position of the for loop over shard_names (line 56)
    rec_idx,         \* records the current file's iterator has handed out
    counter,         \* batch_inferences: counter
    predictions,     \* batch_inferences: predictions (list of vectors)
    seq_ids,         \* batch_inferences: seq_ids
    yielded,         \* every batch batched_inferences_from_files has yielded
    yielded_from,    \* history: the file each yielded batch came from
    bpc,             \* where the generators stand
    \* ---- evaluation pipeline ----
    sequence_names, predictions_array, min_decision_threshold,
    ground_truth,    \* nested ground truth: rows of (sequence_name, true_label)
    i, up_ids, labels, values,       \* the sparsifier's loop
    predictions_df, ground_truth_df, \* tidy tables
    combined,        \* the aligned table of the last call
    threshold,       \* assign_tp_fp_fn: threshold
    grouping, filtered, \* get_pr_curve_df arguments
    to_process,      \* get_pr_curve_df: the groups it iterates over
    curve_df,        \* get_pr_curve_df: result
    pc,
    \* ---- filter_pr_curve ----
    in_curve, resolution, out_once, out_twice, fpc

batchVars == <<shards, batch_size, file_idx, rec_idx, counter, predictions,
               seq_ids, yielded, yielded_from, bpc>>
evalVars == <<sequence_names, predictions_array, min_decision_threshold,
              ground_truth, i, up_ids, labels, values, predictions_df,
              ground_truth_df, combined, threshold, grouping, filtered,
              to_process, curve_df, pc>>
filterVars == <<in_curve, resolution, out_once, out_twice, fpc>>
vars == <<batchVars, evalVars, filterVars>>

\* ------------------------------------------------------------------------
\* Bounds
\* ------------------------------------------------------------------------
MaxFiles == 3
MaxRecords == 3
MaxBatchSize == 3

\* ------------------------------------------------------------------------
\* Helpers
\* ------------------------------------------------------------------------
RECURSIVE SumSeq(_)
SumSeq(s) == IF s = <<>> THEN 0 ELSE Head(s) + SumSeq(Tail(s))

RECURSIVE Flatten(_)
Flatten(ss) == IF ss = <<>> THEN <<>> ELSE Head(ss) \o Flatten(Tail(ss))

CeilDiv(a, b) == (a + b - 1) \div b

SeqsUpTo(S, n) == UNION {[1..k -> S] : k \in 0..n}

\* ------------------------------------------------------------------------
\* Batch reader
\* ------------------------------------------------------------------------
\* The k-th record of file f: an identifier unique in the run and its
\* confidence vector.
Record(f, k) == <<<<f, k>>, <<k % 2, (f + k) % 2>>>>

\* inference.parse_shard(file_name): the records of one shard, in order.
ParseShard(f) == shards[f]

\* np.vstack(predictions): the matrix whose k-th row is the k-th vector.
Vstack(vectors) == [k \in 1..Len(vectors) |-> vectors[k]]

\* line 47: the batch is complete
BatchIsFull(c, b) == c = b

\* mutant of HasPending: the end of the input always yields
HasPendingAlways(ids) == Len(ids) >= 0

\* mutant of HasPending: the end of a file never yields its partial batch
HasPendingNever(ids) == Len(ids) > Len(ids)

\* line 41: a partial batch is pending when the iterator is exhausted
HasPending(ids) == Len(ids) > 0

BatchInit ==
    /\ \E sizes \in SeqsUpTo(0..MaxRecords, MaxFiles) :
          shards = [f \in 1..Len(sizes) |->
                       [k \in 1..sizes[f] |-> Record(f, k)]]
    /\ batch_size \in 1..MaxBatchSize
    /\ file_idx = 0 /\ rec_idx = 0
    /\ counter = 0 /\ predictions = <<>> /\ seq_ids = <<>>
    /\ yielded = <<>> /\ yielded_from = <<>>
    /\ bpc = "files"
    \* the rest of the program is not running
    /\ sequence_names = <<>> /\ predictions_array = <<>>
    /\ min_decision_threshold = 0 /\ ground_truth = <<>>
    /\ i = 0 /\ up_ids = <<>> /\ labels = <<>> /\ values = <<>>
    /\ predictions_df = <<>> /\ ground_truth_df = <<>> /\ combined = <<>>
    /\ threshold = 0 /\ grouping = [given |-> FALSE, map |-> {}]
    /\ filtered = FALSE /\ to_process = <<>> /\ curve_df = <<>>
    /\ pc = "idle"
    /\ in_curve = <<>> /\ resolution = 0 /\ out_once = <<>>
    /\ out_twice = <<>> /\ fpc = "idle"

\* line 56-58: the for loop takes the next file and starts a fresh
\* batch_inferences generator on its records (lines 34-36).
OpenShard ==
    /\ bpc = "files" /\ file_idx < Len(shards)
    /\ file_idx' = file_idx + 1
    /\ rec_idx' = 0
    /\ counter' = 0 /\ predictions' = <<>> /\ seq_ids' = <<>>
    /\ bpc' = "read"
    /\ UNCHANGED <<shards, batch_size, yielded, yielded_from>>
    /\ UNCHANGED <<evalVars, filterVars>>

\* lines 39, 44-48: next(iterator) hands out a record; it is appended and, when
\* the counter reaches batch_size, the batch is yielded.
ReadRecord ==
    /\ bpc = "read" /\ rec_idx < Len(ParseShard(file_idx))
    /\ LET inference == ParseShard(file_idx)[rec_idx + 1]
           ids == Append(seq_ids, inference[1])
           preds == Append(predictions, inference[2])
       IN /\ rec_idx' = rec_idx + 1
          /\ seq_ids' = ids
          /\ predictions' = preds
          /\ counter' = counter + 1
          /\ IF BatchIsFull(counter + 1, batch_size)
             THEN /\ yielded' = Append(yielded, <<ids, Vstack(preds)>>)
                  /\ yielded_from' = Append(yielded_from, file_idx)
                  /\ bpc' = "yield_full"
             ELSE /\ UNCHANGED <<yielded, yielded_from>>
                  /\ bpc' = "read"
    /\ UNCHANGED <<shards, batch_size, file_idx>>
    /\ UNCHANGED <<evalVars, filterVars>>

\* mutant of ResumeAfterFull: the counter is reset and the lists are not
ResumeAfterFullKeep ==
    /\ bpc = "yield_full"
    /\ counter' = 0
    /\ bpc' = "read"
    /\ UNCHANGED <<shards, batch_size, file_idx, rec_idx, yielded,
                   yielded_from, predictions, seq_ids>>
    /\ UNCHANGED <<evalVars, filterVars>>

\* lines 49-51: resumed after the yield of a full batch.
ResumeAfterFull ==
    /\ bpc = "yield_full"
    /\ predictions' = <<>> /\ seq_ids' = <<>> /\ counter' = 0
    /\ bpc' = "read"
    /\ UNCHANGED <<shards, batch_size, file_idx, rec_idx, yielded, yielded_from>>
    /\ UNCHANGED <<evalVars, filterVars>>

\* lines 40-43: next(iterator) raises StopIteration; a pending partial batch
\* is yielded, otherwise the generator returns and the while loop of
\* batched_inferences_from_files breaks (lines 62-63).
EndOfShard ==
    /\ bpc = "read" /\ rec_idx = Len(ParseShard(file_idx))
    /\ IF HasPending(seq_ids)
       THEN /\ yielded' = Append(yielded, <<seq_ids, Vstack(predictions)>>)
            /\ yielded_from' = Append(yielded_from, file_idx)
            /\ bpc' = "yield_tail"
       ELSE /\ UNCHANGED <<yielded, yielded_from>>
            /\ bpc' = "files"
    /\ UNCHANGED <<shards, batch_size, file_idx, rec_idx, counter,
                   predictions, seq_ids>>
    /\ UNCHANGED <<evalVars, filterVars>>

\* line 43, 62-63: resumed after the yield of the last, partial batch; the
\* generator returns, which releases its frame and the lists it held.
ResumeAfterTail ==
    /\ bpc = "yield_tail"
    /\ predictions' = <<>> /\ seq_ids' = <<>> /\ counter' = 0
    /\ bpc' = "files"
    /\ UNCHANGED <<shards, batch_size, file_idx, rec_idx, yielded, yielded_from>>
    /\ UNCHANGED <<evalVars, filterVars>>

\* line 56: the for loop is exhausted.
AllShardsDone ==
    /\ bpc = "files" /\ file_idx = Len(shards)
    /\ bpc' = "done"
    /\ UNCHANGED <<shards, batch_size, file_idx, rec_idx, counter,
                   predictions, seq_ids, yielded, yielded_from>>
    /\ UNCHANGED <<evalVars, filterVars>>

BatchNext ==
    \/ OpenShard
    \/ ReadRecord
    \/ ResumeAfterFull
    \/ EndOfShard
    \/ ResumeAfterTail
    \/ AllShardsDone

SpecBatch == BatchInit /\ [][BatchNext]_vars

\* ------------------------------------------------------------------------
\* Evaluation pipeline: inputs
\* ------------------------------------------------------------------------
MaxExamples == 2

\* the vocabulary, in index order
Vocab == <<"A", "B">>
\* identifiers of the predicted examples, in input order
ExampleNames == <<"s1", "s2", "s3", "s4">>
\* the examples of the ground truth
GroundTruthNames == <<"s1", "s2">>
\* confidences and thresholds, in fixed-point units
Confidences == {0, 1, 2}
MinThresholds == {0, 1}
Thresholds == {0, 1, 2}
\* the true_label lists an example may carry; the last repeats a label
TrueLabelLists == {<<>>, <<"A">>, <<"A", "B">>, <<"B", "B">>}
\* group keys, in sorted order
GroupNames == <<"g1", "g2">>

Range(f) == {f[x] : x \in DOMAIN f}

\* a dictionary label -> group key as a set of pairs; None is given = FALSE
Dictionaries ==
    {m \in SUBSET (Range(Vocab) \X Range(GroupNames)) :
        \A a \in m, b \in m : a[1] = b[1] => a = b}
Groupings ==
    {[given |-> FALSE, map |-> {}]} \cup
    {[given |-> TRUE, map |-> m] : m \in Dictionaries}

\* the stand-in for IEEE NaN: no confidence or ratio is negative
NaN == -1

\* the fixed-point unit is 1/Scale; the default resolution 1e-3 is one unit
Scale == 1000
DefaultResolution == 1

\* ------------------------------------------------------------------------
\* Sparsifier
\* ------------------------------------------------------------------------
\* mutant of Above: the comparison is not strict
AboveOrEqual(x, theta) == x >= theta

\* line 86: preds > min_decision_threshold
Above(x, theta) == x > theta

\* line 86: np.argwhere(preds > min_decision_threshold), ascending indices
Argwhere(preds, theta) ==
    SelectSeq([v \in 1..Len(preds) |-> v], LAMBDA v : Above(preds[v], theta))

\* line 91: pd.DataFrame of the three parallel lists
PredictionsFrame(ids, labs, vals) ==
    [k \in 1..Len(ids) |-> [up_id |-> ids[k], label |-> labs[k], value |-> vals[k]]]

\* lines 82-90: one iteration of the loop over the examples
TidyExample ==
    /\ pc = "tidy" /\ i < Len(sequence_names)
    /\ LET up_id == sequence_names[i + 1]
           preds == predictions_array[i + 1]
           hits == Argwhere(preds, min_decision_threshold)
       IN /\ up_ids' = up_ids \o [k \in 1..Len(hits) |-> up_id]
          /\ labels' = labels \o [k \in 1..Len(hits) |-> Vocab[hits[k]]]
          /\ values' = values \o [k \in 1..Len(hits) |-> preds[hits[k]]]
    /\ i' = i + 1
    /\ UNCHANGED <<sequence_names, predictions_array, min_decision_threshold,
                   ground_truth, predictions_df, ground_truth_df, combined,
                   threshold, grouping, filtered, to_process, curve_df, pc>>
    /\ UNCHANGED <<batchVars, filterVars>>

\* line 91: the loop is over and the table is returned
TidyReturn ==
    /\ pc = "tidy" /\ i = Len(sequence_names)
    /\ predictions_df' = PredictionsFrame(up_ids, labels, values)
    /\ pc' = "truth"
    /\ UNCHANGED <<sequence_names, predictions_array, min_decision_threshold,
                   ground_truth, i, up_ids, labels, values, ground_truth_df,
                   combined, threshold, grouping, filtered, to_process,
                   curve_df>>
    /\ UNCHANGED <<batchVars, filterVars>>

\* ------------------------------------------------------------------------
\* Ground-truth tidifier
\* ------------------------------------------------------------------------
\* lines 133-138: one row per (example, true label), duplicates kept
RECURSIVE TidyGroundTruth(_)
TidyGroundTruth(gt) ==
    IF gt = <<>> THEN <<>>
    ELSE [k \in 1..Len(Head(gt).true_label) |->
             [up_id |-> Head(gt).sequence_name,
              label |-> Head(gt).true_label[k],
              gt |-> TRUE]]
         \o TidyGroundTruth(Tail(gt))

MakeTidyDfFromGroundTruth ==
    /\ pc = "truth"
    /\ ground_truth_df' = TidyGroundTruth(ground_truth)
    /\ pc' = "ready"
    /\ UNCHANGED <<sequence_names, predictions_array, min_decision_threshold,
                   ground_truth, i, up_ids, labels, values, predictions_df,
                   combined, threshold, grouping, filtered, to_process,
                   curve_df>>
    /\ UNCHANGED <<batchVars, filterVars>>

\* ------------------------------------------------------------------------
\* Aligner
\* ------------------------------------------------------------------------
Key(row) == <<row.label, row.up_id>>

IndexOf(seq, x) == CHOOSE k \in 1..Len(seq) : seq[k] = x

\* the lexicographic order of the join keys (label, then up_id)
KeyRank(key) ==
    IndexOf(Vocab, key[1]) * (Len(ExampleNames) + 1) + IndexOf(ExampleNames, key[2])

RECURSIVE SortKeys(_)
SortKeys(S) ==
    IF S = {} THEN <<>>
    ELSE LET first == CHOOSE k \in S : \A o \in S : KeyRank(k) <= KeyRank(o)
         IN <<first>> \o SortKeys(S \ {first})

MatchingRows(df, key) ==
    SelectSeq([k \in 1..Len(df) |-> k], LAMBDA k : Key(df[k]) = key)

\* the pairs <<l, r>> of one key: every left row with every right row, and 0
\* where the key is missing on that side
PairsOfKey(left, right, key) ==
    LET ls == MatchingRows(left, key)
        rs == MatchingRows(right, key)
    IN IF rs = <<>> THEN [k \in 1..Len(ls) |-> <<ls[k], 0>>]
       ELSE IF ls = <<>> THEN [k \in 1..Len(rs) |-> <<0, rs[k]>>]
       ELSE [k \in 1..(Len(ls) * Len(rs)) |->
                <<ls[((k - 1) \div Len(rs)) + 1], rs[((k - 1) % Len(rs)) + 1]>>]

\* mutant of JoinKeys: an inner join
InnerJoinKeys(left, right) ==
    {Key(left[k]) : k \in 1..Len(left)} \cap {Key(right[k]) : k \in 1..Len(right)}

\* mutant of JoinKeys: a left join
LeftJoinKeys(left, right) ==
    {Key(left[k]) : k \in 1..Len(left)} \ ({Key(right[k]) : k \in 1..Len(right)} \ {Key(left[k]) : k \in 1..Len(left)})

\* line 144: how="outer" keeps the keys of either table
JoinKeys(left, right) ==
    {Key(left[k]) : k \in 1..Len(left)} \cup {Key(right[k]) : k \in 1..Len(right)}

\* lines 143-147: DataFrame.merge on ["label", "up_id"], keys sorted
OuterMerge(left, right) ==
    LET keys == SortKeys(JoinKeys(left, right))
    IN Flatten([n \in 1..Len(keys) |-> PairsOfKey(left, right, keys[n])])

\* line 148: what fillna(False) puts in an empty cell; False is 0 in every
\* comparison with a number
FillValue == 0
FillGt == FALSE

\* lines 143-149
MergeFrames(left, right) ==
    LET pairs == OuterMerge(left, right)
    IN [n \in 1..Len(pairs) |->
          LET l == pairs[n][1]
              r == pairs[n][2]
          IN [up_id |-> IF l > 0 THEN left[l].up_id ELSE right[r].up_id,
              label |-> IF l > 0 THEN left[l].label ELSE right[r].label,
              value |-> IF l > 0 THEN left[l].value ELSE FillValue,
              gt |-> IF r > 0 THEN right[r].gt ELSE FillGt]]

MergePredictionsAndGroundTruth ==
    /\ pc = "ready"
    /\ combined' = MergeFrames(predictions_df, ground_truth_df)
    /\ pc' = "merged"
    /\ UNCHANGED <<sequence_names, predictions_array, min_decision_threshold,
                   ground_truth, i, up_ids, labels, values, predictions_df,
                   ground_truth_df, threshold, grouping, filtered, to_process,
                   curve_df>>
    /\ UNCHANGED <<batchVars, filterVars>>

\* ------------------------------------------------------------------------
\* Confusion assigner
\* ------------------------------------------------------------------------
\* mutant of IsFn: a tie counts as a miss
IsFnWithTies(row, tau) == (row.gt = TRUE) /\ (row.value <= tau)

\* line 224
IsTp(row, tau) == (row.gt = TRUE) /\ (row.value > tau)
\* lines 225-226
IsFp(row, tau) == (row.gt = FALSE) /\ (row.value > tau)
\* line 227
IsFn(row, tau) == (row.gt = TRUE) /\ (row.value < tau)

\* lines 221-228
AssignFrame(left, right, tau) ==
    LET merged == MergeFrames(left, right)
    IN [n \in 1..Len(merged) |->
          [up_id |-> merged[n].up_id, label |-> merged[n].label,
           value |-> merged[n].value, gt |-> merged[n].gt,
           tp |-> IsTp(merged[n], tau),
           fp |-> IsFp(merged[n], tau),
           fn |-> IsFn(merged[n], tau)]]

AssignTpFpFn ==
    /\ pc = "ready"
    /\ \E tau \in Thresholds :
          /\ threshold' = tau
          /\ combined' = AssignFrame(predictions_df, ground_truth_df, tau)
    /\ pc' = "assigned"
    /\ UNCHANGED <<sequence_names, predictions_array, min_decision_threshold,
                   ground_truth, i, up_ids, labels, values, predictions_df,
                   ground_truth_df, grouping, filtered, to_process, curve_df>>
    /\ UNCHANGED <<batchVars, filterVars>>

\* ------------------------------------------------------------------------
\* Curve builder
\* ------------------------------------------------------------------------
Abs(x) == IF x < 0 THEN 0 - x ELSE x

\* mutant of Differs: a step of exactly the resolution is dropped
DiffersStrictly(a, b, res) == a # NaN /\ b # NaN /\ Abs(a - b) > res

\* lines 206-209: abs(x - last) >= resolution, False when either is NaN
Differs(a, b, res) == a # NaN /\ b # NaN /\ Abs(a - b) >= res

\* lines 206-209: the test of point idx against the last kept point (last = 0
\* while last_precision is None)
KeepPoint(precisions, recalls, res, idx, last) ==
    \/ last = 0
    \/ Differs(precisions[idx], precisions[last], res)
    \/ Differs(recalls[idx], recalls[last], res)

\* mutant of KeptFrom: last_precision and last_recall follow every visited
\* point, kept or not
RECURSIVE KeptFromVisited(_, _, _, _, _)
KeptFromVisited(precisions, recalls, res, idx, last) ==
    IF idx > Len(precisions) THEN <<>>
    ELSE IF KeepPoint(precisions, recalls, res, idx, last)
         THEN <<idx>> \o KeptFromVisited(precisions, recalls, res, idx + 1, idx)
         ELSE KeptFromVisited(precisions, recalls, res, idx + 1, idx)

\* lines 205-214: the indices the loop keeps from idx on
RECURSIVE KeptFrom(_, _, _, _, _)
KeptFrom(precisions, recalls, res, idx, last) ==
    IF idx > Len(precisions) THEN <<>>
    ELSE IF KeepPoint(precisions, recalls, res, idx, last)
         THEN <<idx>> \o KeptFrom(precisions, recalls, res, idx + 1, idx)
         ELSE KeptFrom(precisions, recalls, res, idx + 1, last)

\* lines 198-216
FilterPrCurve(precisions, recalls, thresholds, res) ==
    LET kept == KeptFrom(precisions, recalls, res, 1, 0)
    IN [precisions |-> [n \in 1..Len(kept) |-> precisions[kept[n]]],
        recalls |-> [n \in 1..Len(kept) |-> recalls[kept[n]]],
        thresholds |-> [n \in 1..Len(kept) |-> thresholds[kept[n]]]]

RECURSIVE SortAscending(_)
SortAscending(S) ==
    IF S = {} THEN <<>>
    ELSE LET least == CHOOSE x \in S : \A y \in S : x <= y
         IN <<least>> \o SortAscending(S \ {least})

Ratio(num, den) == IF den = 0 THEN NaN ELSE (num * Scale) \div den

\* lines 175-176: sklearn.metrics.precision_recall_curve(gt, value) as the
\* library of the code's time defines it: one point per distinct score from
\* the highest score that reaches full recall upwards, in ascending order of
\* threshold, then the point (precision 1, recall 0) that has no threshold.
PrecisionRecallCurve(rows) ==
    LET scores == {rows[k].value : k \in 1..Len(rows)}
        Tps(v) == Cardinality({k \in 1..Len(rows) : rows[k].gt /\ rows[k].value >= v})
        Fps(v) == Cardinality({k \in 1..Len(rows) : ~rows[k].gt /\ rows[k].value >= v})
        positives == Cardinality({k \in 1..Len(rows) : rows[k].gt})
        full == CHOOSE v \in scores :
                   /\ Tps(v) = positives
                   /\ \A w \in scores : Tps(w) = positives => w <= v
        ts == SortAscending({v \in scores : v >= full})
    IN [precisions |-> [n \in 1..Len(ts) |-> Ratio(Tps(ts[n]), Tps(ts[n]) + Fps(ts[n]))]
                       \o <<Scale>>,
        recalls |-> [n \in 1..Len(ts) |-> Ratio(Tps(ts[n]), positives)] \o <<0>>,
        thresholds |-> ts]

\* line 193: 2 * precisions * recalls / (precisions + recalls)
F1(precision, recall) ==
    IF precision = NaN \/ recall = NaN \/ precision + recall = 0 THEN NaN
    ELSE (2 * precision * recall) \div (precision + recall)

\* lines 175-194: the curve table of one group
CurveFrame(group_name, group, filt) ==
    LET prc == PrecisionRecallCurve(group)
        precisions == SubSeq(prc.precisions, 1, Len(prc.precisions) - 1)
        recalls == SubSeq(prc.recalls, 1, Len(prc.recalls) - 1)
        curve == IF filt
                 THEN FilterPrCurve(precisions, recalls, prc.thresholds,
                                    DefaultResolution)
                 ELSE [precisions |-> precisions, recalls |-> recalls,
                       thresholds |-> prc.thresholds]
    IN [n \in 1..Len(curve.precisions) |->
          [group |-> group_name,
           precision |-> curve.precisions[n],
           recall |-> curve.recalls[n],
           threshold |-> curve.thresholds[n],
           f1 |-> F1(curve.precisions[n], curve.recalls[n])]]

\* line 169: Series.map(grouping); a label the dictionary lacks maps to NaN
MapLabel(map, label) ==
    IF \E p \in map : p[1] = label
    THEN (CHOOSE p \in map : p[1] = label)[2]
    ELSE "NaN"

\* mutant of GroupKeys: rows without a group key form a group of their own
GroupKeysKeepNaN(col) ==
    SelectSeq(GroupNames \o <<"NaN">>, LAMBDA g : \E k \in 1..Len(col) : col[k] = g)

\* line 170: the keys groupby('group') iterates over: sorted, NaN dropped
GroupKeys(col) ==
    SelectSeq(GroupNames, LAMBDA g : \E k \in 1..Len(col) : col[k] = g)

\* lines 166-170: the (group name, rows) pairs to process
ToProcess(frame, grp) ==
    IF ~grp.given THEN <<[name |-> "all", rows |-> frame]>>
    ELSE LET col == [k \in 1..Len(frame) |-> MapLabel(grp.map, frame[k].label)]
             keys == GroupKeys(col)
         IN [n \in 1..Len(keys) |->
               [name |-> keys[n],
                rows |-> LET idx == SelectSeq([k \in 1..Len(frame) |-> k],
                                              LAMBDA k : col[k] = keys[n])
                         IN [m \in 1..Len(idx) |-> frame[idx[m]]]]]

\* lines 152-195; precision_recall_curve raises on a table without rows, and
\* pd.concat on an empty list of groups
GetPrCurveDf ==
    /\ pc = "ready"
    /\ combined' = MergeFrames(predictions_df, ground_truth_df)
    /\ \E grp \in Groupings, filt \in BOOLEAN :
          /\ grouping' = grp
          /\ filtered' = filt
          /\ to_process' = ToProcess(combined', grp)
          /\ IF to_process' = <<>>
                \/ \E n \in 1..Len(to_process') : to_process'[n].rows = <<>>
             THEN /\ pc' = "raised"
                  /\ UNCHANGED curve_df
             ELSE /\ pc' = "curve"
                  /\ curve_df' =
                        Flatten([n \in 1..Len(to_process') |->
                                    CurveFrame(to_process'[n].name,
                                               to_process'[n].rows, filt)])
    /\ UNCHANGED <<sequence_names, predictions_array, min_decision_threshold,
                   ground_truth, i, up_ids, labels, values, predictions_df,
                   ground_truth_df, threshold>>
    /\ UNCHANGED <<batchVars, filterVars>>

\* ------------------------------------------------------------------------
\* The pipeline
\* ------------------------------------------------------------------------
Init ==
    /\ \E n \in 0..MaxExamples :
          /\ sequence_names = SubSeq(ExampleNames, 1, n)
          /\ predictions_array \in [1..n -> [1..Len(Vocab) -> Confidences]]
    /\ min_decision_threshold \in MinThresholds
    /\ \E lists \in [1..Len(GroundTruthNames) -> TrueLabelLists] :
          ground_truth = [n \in 1..Len(GroundTruthNames) |->
                             [sequence_name |-> GroundTruthNames[n],
                              true_label |-> lists[n]]]
    /\ i = 0 /\ up_ids = <<>> /\ labels = <<>> /\ values = <<>>
    /\ predictions_df = <<>> /\ ground_truth_df = <<>> /\ combined = <<>>
    /\ threshold = 0 /\ grouping = [given |-> FALSE, map |-> {}]
    /\ filtered = FALSE /\ to_process = <<>> /\ curve_df = <<>>
    /\ pc = "tidy"
    \* the rest of the program is not running
    /\ shards = <<>> /\ batch_size = 1 /\ file_idx = 0 /\ rec_idx = 0
    /\ counter = 0 /\ predictions = <<>> /\ seq_ids = <<>>
    /\ yielded = <<>> /\ yielded_from = <<>> /\ bpc = "idle"
    /\ in_curve = <<>> /\ resolution = 0 /\ out_once = <<>>
    /\ out_twice = <<>> /\ fpc = "idle"

Next ==
    \/ TidyExample
    \/ TidyReturn
    \/ MakeTidyDfFromGroundTruth
    \/ MergePredictionsAndGroundTruth
    \/ AssignTpFpFn
    \/ GetPrCurveDf

Spec == Init /\ [][Next]_vars

\* ------------------------------------------------------------------------
\* filter_pr_curve on its own, applied once and then to its own output
\* ------------------------------------------------------------------------
MaxPoints == 3

FilterValues == {NaN, 1, 2, 3}
Resolutions == {1, 2}

FilterInit ==
    /\ \E n \in 0..MaxPoints :
         \E ps \in [1..n -> FilterValues], rs \in [1..n -> FilterValues] :
            in_curve = [precisions |-> ps, recalls |-> rs,
                        thresholds |-> [k \in 1..n |-> k]]
    /\ resolution \in Resolutions
    /\ out_once = <<>> /\ out_twice = <<>>
    /\ fpc = "start"
    \* the rest of the program is not running
    /\ shards = <<>> /\ batch_size = 1 /\ file_idx = 0 /\ rec_idx = 0
    /\ counter = 0 /\ predictions = <<>> /\ seq_ids = <<>>
    /\ yielded = <<>> /\ yielded_from = <<>> /\ bpc = "idle"
    /\ sequence_names = <<>> /\ predictions_array = <<>>
    /\ min_decision_threshold = 0 /\ ground_truth = <<>>
    /\ i = 0 /\ up_ids = <<>> /\ labels = <<>> /\ values = <<>>
    /\ predictions_df = <<>> /\ ground_truth_df = <<>> /\ combined = <<>>
    /\ threshold = 0 /\ grouping = [given |-> FALSE, map |-> {}]
    /\ filtered = FALSE /\ to_process = <<>> /\ curve_df = <<>>
    /\ pc = "idle"

\* filter_pr_curve(precisions, recalls, thresholds, resolution)
FilterOnce ==
    /\ fpc = "start"
    /\ out_once' = FilterPrCurve(in_curve.precisions, in_curve.recalls,
                                 in_curve.thresholds, resolution)
    /\ fpc' = "once"
    /\ UNCHANGED <<in_curve, resolution, out_twice>>
    /\ UNCHANGED <<batchVars, evalVars>>

\* filter_pr_curve on the curve it returned, with the same resolution
FilterAgain ==
    /\ fpc = "once"
    /\ out_twice' = FilterPrCurve(out_once.precisions, out_once.recalls,
                                  out_once.thresholds, resolution)
    /\ fpc' = "twice"
    /\ UNCHANGED <<in_curve, resolution, out_once>>
    /\ UNCHANGED <<batchVars, evalVars>>

FilterNext ==
    \/ FilterOnce
    \/ FilterAgain

SpecFilter == FilterInit /\ [][FilterNext]_vars

\* ------------------------------------------------------------------------
\* Batch reader: properties
\* ------------------------------------------------------------------------
\* the batcher of file f has returned
Returned(f) == f < file_idx \/ (f = file_idx /\ bpc \in {"files", "done"})

\* the rows of each batch yielded from file f, in emission order
BatchRowsOf(f) ==
    LET idx == SelectSeq([k \in 1..Len(yielded) |-> k],
                         LAMBDA k : yielded_from[k] = f)
    IN [n \in 1..Len(idx) |-> Len(yielded[idx[n]][1])]

\* ceil(R/B) batches of B rows, the last of R mod B rows when that is not 0
ExpectedRows(R, B) ==
    [n \in 1..CeilDiv(R, B) |->
        IF n < CeilDiv(R, B) \/ R % B = 0 THEN B ELSE R % B]

TotalRecords == SumSeq([f \in 1..Len(shards) |-> Len(shards[f])])

\* C1: batch_inferences over an iterator of R records and a positive batch
\* size B emits exactly ceil(R/B) batches: all of B rows except possibly the
\* last, which has R mod B rows (B when R mod B = 0); no batch is empty and
\* R = 0 emits none.
C1_BatchCountAndSizes ==
    /\ \A f \in 1..Len(shards) :
          Returned(f) => BatchRowsOf(f) = ExpectedRows(Len(shards[f]), batch_size)
    /\ \A k \in 1..Len(yielded) :
          /\ Len(yielded[k][1]) > 0
          /\ Len(yielded[k][2]) = Len(yielded[k][1])

C1_Witness ==
    /\ bpc = "done" /\ batch_size = 2
    /\ \E f \in 1..Len(shards) : Len(shards[f]) = 3 /\ BatchRowsOf(f) = <<2, 1>>
    /\ \E f \in 1..Len(shards) : Len(shards[f]) = 0 /\ BatchRowsOf(f) = <<>>
    /\ \E f \in 1..Len(shards) : Len(shards[f]) = 2 /\ BatchRowsOf(f) = <<2>>

\* C2 as stated: over a list of shard files the count carries over the file
\* boundaries, so the run emits ceil(R/B) batches for R records in all and
\* every batch but the very last of the run has exactly B rows.
C2_AsStated ==
    bpc = "done" =>
        /\ Len(yielded) = CeilDiv(TotalRecords, batch_size)
        /\ \A k \in 1..Len(yielded) - 1 : Len(yielded[k][1]) = batch_size

\* C2 amended: every file is batched on its own. The count and the pending
\* rows start from zero at each file, so the run emits the sum over the
\* files of ceil(R_f/B) batches, a file of zero records emits none, and a
\* batch of fewer than B rows is the last batch of its file.
C2_BatchingRestartsPerFile ==
    /\ (bpc = "read" /\ rec_idx = 0) => (counter = 0 /\ seq_ids = <<>>)
    /\ bpc \in {"read", "yield_full", "yield_tail"} =>
          counter = IF bpc = "yield_full" THEN batch_size
                    ELSE rec_idx % batch_size
    /\ bpc = "done" =>
          /\ Len(yielded) =
                SumSeq([f \in 1..Len(shards) |->
                           CeilDiv(Len(shards[f]), batch_size)])
          /\ \A f \in 1..Len(shards) :
                Len(shards[f]) = 0 => BatchRowsOf(f) = <<>>
          /\ \A k \in 1..Len(yielded) :
                Len(yielded[k][1]) # batch_size =>
                    /\ k = Len(yielded) \/ yielded_from[k + 1] # yielded_from[k]
                    /\ Len(yielded[k][1]) =
                          Len(shards[yielded_from[k]]) % batch_size

C2_Witness ==
    /\ bpc = "done" /\ batch_size = 2 /\ Len(shards) = 3
    /\ Len(shards[1]) = 1 /\ Len(shards[2]) = 0 /\ Len(shards[3]) = 3
    /\ Len(yielded) = 3
    /\ Len(yielded[1][1]) = 1

\* the identifiers and the vectors of the records read so far, in file order
ConsumedRecords ==
    Flatten([f \in 1..file_idx |->
                IF f < file_idx THEN shards[f]
                ELSE SubSeq(shards[f], 1, rec_idx)])

YieldedIds == Flatten([k \in 1..Len(yielded) |-> yielded[k][1]])
YieldedRows == Flatten([k \in 1..Len(yielded) |-> yielded[k][2]])

\* the rows buffered and not yet yielded
PendingIds == IF bpc \in {"yield_full", "yield_tail"} THEN <<>> ELSE seq_ids
PendingRows == IF bpc \in {"yield_full", "yield_tail"} THEN <<>> ELSE predictions

\* C3: the identifiers of the yielded batches, concatenated, are the records
\* of the files in file order (none lost, none twice); row k of a batch's
\* matrix is the vector of its k-th identifier; the reader never buffers
\* more than B records.
C3_StreamPreserved ==
    /\ YieldedIds \o PendingIds =
          [n \in 1..Len(ConsumedRecords) |-> ConsumedRecords[n][1]]
    /\ YieldedRows \o PendingRows =
          [n \in 1..Len(ConsumedRecords) |-> ConsumedRecords[n][2]]
    /\ \A k \in 1..Len(yielded) :
          /\ Len(yielded[k][2]) = Len(yielded[k][1])
          /\ \A r \in 1..Len(yielded[k][1]) :
                LET id == yielded[k][1][r]
                IN yielded[k][2][r] = shards[id[1]][id[2]][2]
    /\ Len(seq_ids) <= batch_size /\ Len(predictions) <= batch_size
    /\ bpc = "done" =>
          YieldedIds = [n \in 1..TotalRecords |->
                           Flatten(shards)[n][1]]

C3_Witness ==
    /\ bpc = "done" /\ batch_size = 2 /\ Len(shards) >= 2
    /\ Len(shards[1]) = 3 /\ Len(shards[2]) = 2
    /\ Len(yielded) = 3
    /\ YieldedIds = <<<<1, 1>>, <<1, 2>>, <<1, 3>>, <<2, 1>>, <<2, 2>>>>

\* ------------------------------------------------------------------------
\* Sparsifier: properties
\* ------------------------------------------------------------------------
Tidied == pc \notin {"idle", "tidy"}

\* the example and the column a tidy row came from
RowExample(row) == IndexOf(sequence_names, row.up_id)
RowColumn(row) == IndexOf(Vocab, row.label)

\* C4: the sparsifier emits exactly the rows (id_i, vocab[v], M[i,v]) with
\* M[i,v] > theta (strict): one row per such entry, none for an entry equal to
\* or below theta, ordered by example index and then by column index.
C4_TidyRowsExactlyAboveThreshold ==
    Tidied =>
        /\ \A k \in 1..Len(predictions_df) :
              /\ predictions_df[k].value > min_decision_threshold
              /\ predictions_df[k].up_id \in Range(sequence_names)
        /\ \A n \in 1..Len(sequence_names), v \in 1..Len(Vocab) :
              LET hits == {k \in 1..Len(predictions_df) :
                              /\ predictions_df[k].up_id = sequence_names[n]
                              /\ predictions_df[k].label = Vocab[v]}
              IN IF predictions_array[n][v] > min_decision_threshold
                 THEN /\ Cardinality(hits) = 1
                      /\ \A k \in hits :
                            predictions_df[k].value = predictions_array[n][v]
                 ELSE hits = {}
        /\ \A k \in 1..Len(predictions_df), l \in 1..Len(predictions_df) :
              k < l =>
                 \/ RowExample(predictions_df[k]) < RowExample(predictions_df[l])
                 \/ /\ RowExample(predictions_df[k]) = RowExample(predictions_df[l])
                    /\ RowColumn(predictions_df[k]) < RowColumn(predictions_df[l])

C4_Witness ==
    /\ pc = "truth"
    /\ min_decision_threshold = 1
    /\ predictions_array = <<<<2, 2>>, <<1, 2>>>>
    /\ predictions_df = <<[up_id |-> "s1", label |-> "A", value |-> 2],
                          [up_id |-> "s1", label |-> "B", value |-> 2],
                          [up_id |-> "s2", label |-> "B", value |-> 2]>>

\* ------------------------------------------------------------------------
\* Aligner: properties
\* ------------------------------------------------------------------------
KeysOf(df) == {Key(df[k]) : k \in 1..Len(df)}
NoRepeatedKey(df) == \A k \in 1..Len(df), l \in 1..Len(df) : Key(df[k]) = Key(df[l]) => k = l
RowsWithKey(df, key) == {k \in 1..Len(df) : Key(df[k]) = key}

\* C5 as stated: for every pair of tables, a repeated true label included,
\* every key of either input appears exactly once in the aligned table.
C5_AsStated ==
    pc = "merged" =>
        /\ Len(combined) = Cardinality(KeysOf(predictions_df) \cup KeysOf(ground_truth_df))
        /\ \A key \in KeysOf(predictions_df) \cup KeysOf(ground_truth_df) :
              Cardinality(RowsWithKey(combined, key)) = 1

\* C5 amended: every key of either input appears in the aligned table and no
\* other key does; when neither input repeats a key, every key appears
\* exactly once and the number of aligned rows is the size of the union.
C5_UnionOnceWhenKeysUnique ==
    pc = "merged" =>
        /\ KeysOf(combined) = KeysOf(predictions_df) \cup KeysOf(ground_truth_df)
        /\ (NoRepeatedKey(predictions_df) /\ NoRepeatedKey(ground_truth_df)) =>
              /\ Len(combined) =
                    Cardinality(KeysOf(predictions_df) \cup KeysOf(ground_truth_df))
              /\ NoRepeatedKey(combined)

C5_Witness ==
    /\ pc = "merged"
    /\ NoRepeatedKey(predictions_df) /\ NoRepeatedKey(ground_truth_df)
    /\ KeysOf(predictions_df) \ KeysOf(ground_truth_df) # {}
    /\ KeysOf(ground_truth_df) \ KeysOf(predictions_df) # {}
    /\ KeysOf(ground_truth_df) \cap KeysOf(predictions_df) # {}
    /\ Len(combined) = 4

DroppedKeys ==
    {<<Vocab[v], sequence_names[n]>> :
        <<n, v>> \in {e \in (1..Len(sequence_names)) \X (1..Len(Vocab)) :
                         predictions_array[e[1]][e[2]] <= min_decision_threshold}}

\* C10: a pair of the ground truth without a prediction row (never predicted,
\* or dropped by the sparsifier) is aligned with value 0 and gt True and is
\* flagged fn only, for every threshold above 0; a pair of the predictions
\* alone gets gt False and is never tp or fn.
C10_MissingPairsAreFalseNegatives ==
    pc = "assigned" =>
        /\ KeysOf(predictions_df) \cap DroppedKeys = {}
        /\ \A key \in KeysOf(ground_truth_df) \ KeysOf(predictions_df) :
              /\ RowsWithKey(combined, key) # {}
              /\ \A k \in RowsWithKey(combined, key) :
                    /\ combined[k].value = 0 /\ combined[k].gt = TRUE
                    /\ threshold > 0 =>
                          (combined[k].fn /\ ~combined[k].tp /\ ~combined[k].fp)
        /\ \A key \in KeysOf(predictions_df) \ KeysOf(ground_truth_df) :
              /\ RowsWithKey(combined, key) # {}
              /\ \A k \in RowsWithKey(combined, key) :
                    /\ combined[k].gt = FALSE
                    /\ ~combined[k].tp /\ ~combined[k].fn

C10_Witness ==
    /\ pc = "assigned" /\ threshold = 1
    /\ \E key \in (KeysOf(ground_truth_df) \cap DroppedKeys) :
          \E k \in RowsWithKey(combined, key) : combined[k].fn
    /\ \E key \in KeysOf(predictions_df) \ KeysOf(ground_truth_df) :
          \E k \in RowsWithKey(combined, key) : combined[k].fp

\* ------------------------------------------------------------------------
\* Curve builder: properties
\* ------------------------------------------------------------------------
CurveCalled == pc \in {"curve", "raised"}

\* the labels the dictionary has an entry for
MappedLabels == {p[1] : p \in grouping.map}

RowsOfGroups == SumSeq([n \in 1..Len(to_process) |-> Len(to_process[n].rows)])

C7_FilterIdempotent ==
    fpc = "twice" => out_twice = out_once

C7_Witness ==
    /\ fpc = "twice"
    /\ Len(out_once.precisions) >= 2
    /\ Len(out_once.precisions) < Len(in_curve.precisions)
    /\ out_twice = out_once

\* x and y are numbers at least eps apart
AtLeastApart(x, y, eps) == x # NaN /\ y # NaN /\ (x - y >= eps \/ y - x >= eps)

\* C8: the output is a subsequence of the input points, never longer, that
\* starts with the first input point; a later point is kept exactly when its
\* precision or its recall is at least epsilon away from the last kept
\* point; a kept point keeps its threshold.
C8_FilterKeepsFarPoints ==
    fpc \in {"once", "twice"} =>
        LET n == Len(in_curve.precisions)
            kept == Range(out_once.thresholds)
            LastKept(idx) == CHOOSE k \in kept : k < idx /\ \A o \in kept : o < idx => o <= k
        IN /\ Len(out_once.precisions) <= n
           /\ Len(out_once.recalls) = Len(out_once.precisions)
           /\ Len(out_once.thresholds) = Len(out_once.precisions)
           /\ kept \subseteq 1..n
           /\ \A a \in 1..Len(out_once.thresholds), b \in 1..Len(out_once.thresholds) :
                 a < b => out_once.thresholds[a] < out_once.thresholds[b]
           /\ \A a \in 1..Len(out_once.thresholds) :
                 /\ out_once.precisions[a] = in_curve.precisions[out_once.thresholds[a]]
                 /\ out_once.recalls[a] = in_curve.recalls[out_once.thresholds[a]]
           /\ n > 0 => 1 \in kept
           /\ \A idx \in 2..n :
                 idx \in kept <=>
                    \/ AtLeastApart(in_curve.precisions[idx],
                                    in_curve.precisions[LastKept(idx)], resolution)
                    \/ AtLeastApart(in_curve.recalls[idx],
                                    in_curve.recalls[LastKept(idx)], resolution)

C8_Witness ==
    /\ fpc = "once" /\ resolution = 2
    /\ in_curve.precisions = <<1, 2, 3>>
    /\ in_curve.recalls = <<1, 1, 1>>
    /\ out_once.thresholds = <<1, 3>>
    /\ out_once.precisions = <<1, 3>>

====
